---- MODULE Spec2Model ----
(***************************************************************************)
(* Item-item recommendations by minhashing (src/src/recommendations.py).   *)
(*                                                                         *)
(* String keys (users, DOIs) are modelled by integers whose order is the   *)
(* byte order of their JSON forms, which is the order `sort` gives the     *)
(* stash files.  Python floats are modelled by exact rationals <<n, d>> in *)
(* lowest terms; a value stored in array('f') is rounded to the nearest    *)
(* IEEE single (24 significant bits, ties to even) by ToFloat32.  A float  *)
(* written by ujson.dumps is modelled by its text <<w, ds>>: the whole     *)
(* part w and the digits ds after the point.                               *)
(***************************************************************************)
EXTENDS Integers, Sequences, FiniteSets, TLC

VARIABLES
    pc,          \* position of the program / of the operation under study
    minhash_rounds, \* settings.minhash_rounds of the run
    raw_edges,   \* main: the input rows [user, doi]
    raw_users,   \* preprocess: sorted, de-duped user keys
    raw_dois,    \* preprocess: sorted, de-duped doi keys
    edges,       \* preprocess: compacted rows [doi id, user id]
    buckets,     \* recommendations: rows [minhash, random, doi, users]
    doi2scores,  \* recommendations: array('f') of num_dois * K scores
    doi2recs,    \* recommendations: array('i') of num_dois * K candidate ids
    round,       \* recommendations: number of minhash rounds done
    recs,        \* recommendations: drained rows [doi, rec, score]
    output,      \* main: the rows (doi key, [(rec key, score)]) written to stdout
    inserted,    \* history of insert_rec calls <<doi, rec, score>>
    rows,        \* numbered / unnumber: the rows argument
    labels,      \* numbered / unnumber: the labels argument
    out_rows,    \* numbered / unnumber: rows emitted / rows after the call
    raised,      \* "none" or the exception that left the call
    users1,      \* jaccard_similarity: first argument
    users2,      \* jaccard_similarity: second argument
    jresult,     \* jaccard_similarity: [intersection, difference, score]
    file_rows,   \* stash: the rows of the backing file
    file_pos,    \* stash: the position of the one file object (in rows)
    iters        \* stash: the iterations started, in order

vars == <<pc, minhash_rounds, raw_edges, raw_users, raw_dois, edges, buckets, doi2scores,
          doi2recs, round, recs, output, inserted, rows, labels, out_rows,
          raised, users1, users2, jresult, file_rows, file_pos, iters>>

pipeVars == <<minhash_rounds, raw_edges, raw_users, raw_dois, edges, buckets, round, recs,
              output>>
tableVars == <<doi2scores, doi2recs>>
compactVars == <<rows, labels, out_rows, raised>>
jaccardVars == <<users1, users2, jresult>>
stashVars == <<file_rows, file_pos, iters>>

(***************************************************************************)
(* Bounds of the model.                                                    *)
(***************************************************************************)
MaxEdges == 5      \* longest input to main
MaxInserts == 3    \* longest sequence of insert_rec calls
MaxRows == 3       \* longest rows argument of numbered / unnumber
MaxUserId == 3     \* jaccard_similarity: user ids are 0..MaxUserId
MaxStashRows == 2  \* longest stash file
MaxIters == 3      \* most iterations started on one stash

(***************************************************************************)
(* The values of settings.py, as in the examples of the specification.     *)
(***************************************************************************)
recommendations_per_doi == 2
max_interactions_per_user == 1

\* settings.minhash_rounds is one of these
MinhashRounds == {1, 2}

UserKeys == {1, 2, 3}
DoiKeys == {1, 2, 3}

(***************************************************************************)
(* Sequences and sets.                                                     *)
(***************************************************************************)
Range(s) == {s[i] : i \in 1..Len(s)}

SeqsUpTo(S, n) == UNION {[1..k -> S] : k \in 0..n}

Min(S) == CHOOSE x \in S : \A y \in S : x <= y

RECURSIVE SortedInts(_)
SortedInts(S) ==
    IF S = {} THEN <<>> ELSE <<Min(S)>> \o SortedInts(S \ {Min(S)})

(***************************************************************************)
(* Python floats as exact rationals.                                       *)
(***************************************************************************)
RECURSIVE GCD(_, _)
GCD(a, b) == IF b = 0 THEN a ELSE GCD(b, a % b)

Frac(n, d) == IF n = 0 THEN <<0, 1>> ELSE <<n \div GCD(n, d), d \div GCD(n, d)>>

Zero == Frac(0, 1)

\* a > b on rationals; the denominators' common factor is divided out first
\* so that the products stay small.
Gt(a, b) ==
    LET g == GCD(a[2], b[2])
    IN  a[1] * (b[2] \div g) > b[1] * (a[2] \div g)

RECURSIVE Float32Exp(_, _, _)
Float32Exp(n, d, e) ==
    IF n * (2 ^ e) >= d * (2 ^ 23) THEN e ELSE Float32Exp(n, d, e + 1)

RECURSIVE IsPow2(_)
IsPow2(d) == d = 1 \/ (d % 2 = 0 /\ IsPow2(d \div 2))

\* The double -> float conversion of array('f'): q in (0, 1] becomes m / 2^e
\* with 2^23 <= m <= 2^24, m the nearest integer to q * 2^e, ties to even.
Float32Round(n, d, e) ==
    LET m0 == (n * (2 ^ e)) \div d
        rem == (n * (2 ^ e)) % d
    IN  Frac(IF 2 * rem > d \/ (2 * rem = d /\ m0 % 2 = 1) THEN m0 + 1 ELSE m0, 2 ^ e)

ToFloat32(q) ==
    IF q[1] = 0 THEN Zero
    ELSE IF IsPow2(q[2]) /\ q[1] <= 2 ^ 24 THEN q   \* exactly representable
    ELSE Float32Round(q[1], q[2], Float32Exp(q[1], q[2], 0))

(***************************************************************************)
(* recommendations: the two arrays and insert_rec.                         *)
(***************************************************************************)
K == recommendations_per_doi

Slots(doi) == (doi * K)..((doi + 1) * K - 1)

EmptyScores(num_dois) == [i \in 0..(num_dois * K - 1) |-> Zero]
EmptyRecs(num_dois) == [i \in 0..(num_dois * K - 1) |-> -1]

\* The for loop of insert_rec from slot i on; t = <<doi2scores, doi2recs>>.
RECURSIVE insert_loop(_, _, _, _, _)
insert_loop(t, i, hi, rec, score) ==
    IF i >= hi THEN t
    ELSE IF t[2][i] = rec THEN t
    ELSE IF Gt(score, t[1][i])
         THEN insert_loop(<<[t[1] EXCEPT ![i] = ToFloat32(score)],
                            [t[2] EXCEPT ![i] = rec]>>,
                          i + 1, hi, t[2][i], t[1][i])
         ELSE insert_loop(t, i + 1, hi, rec, score)

insert_rec(t, doi, rec, score) ==
    insert_loop(t, doi * K, (doi + 1) * K, rec, score)

(***************************************************************************)
(* The variables a specification does not use.                             *)
(***************************************************************************)
PipeIdle ==
    /\ minhash_rounds = 0
    /\ raw_edges = <<>> /\ raw_users = <<>> /\ raw_dois = <<>> /\ edges = <<>>
    /\ buckets = <<>> /\ round = 0 /\ recs = <<>> /\ output = <<>>
TableIdle == doi2scores = <<>> /\ doi2recs = <<>>
CompactIdle == rows = <<>> /\ labels = <<>> /\ out_rows = <<>> /\ raised = "none"
JaccardIdle == users1 = <<>> /\ users2 = <<>> /\ jresult = <<>>
StashIdle == file_rows = <<>> /\ file_pos = 0 /\ iters = <<>>

(***************************************************************************)
(* SpecTopK: insert_rec called with any item, candidate and score on the   *)
(* arrays of a run with NumDois items.                                     *)
(***************************************************************************)
NumDois == Cardinality(DoiKeys)

InsertScores == {Frac(0, 1), Frac(1, 2), Frac(5, 6), Frac(1, 1)}

InitTopK ==
    /\ pc = "topk"
    /\ doi2scores = EmptyScores(NumDois)
    /\ doi2recs = EmptyRecs(NumDois)
    /\ inserted = <<>>
    /\ PipeIdle /\ CompactIdle /\ JaccardIdle /\ StashIdle

InsertRec(doi, rec, score) ==
    /\ pc = "topk"
    /\ Len(inserted) < MaxInserts
    /\ LET t == insert_rec(<<doi2scores, doi2recs>>, doi, rec, score)
       IN  doi2scores' = t[1] /\ doi2recs' = t[2]
    /\ inserted' = Append(inserted, <<doi, rec, score>>)
    /\ UNCHANGED <<pc, pipeVars, compactVars, jaccardVars, stashVars>>

NextTopK ==
    \E doi \in 0..(NumDois - 1), rec \in 0..(NumDois - 1), score \in InsertScores :
        InsertRec(doi, rec, score)

SpecTopK == InitTopK /\ [][NextTopK]_vars

\* What the claims say of one item's slots.
SlotRecs(doi) == {doi2recs[i] : i \in Slots(doi)} \ {-1}

\* the <<candidate, score>> pairs inserted for doi with a positive score
InsertedFor(doi) ==
    {<<inserted[n][2], inserted[n][3]>> :
        n \in {m \in 1..Len(inserted) : inserted[m][1] = doi /\ Gt(inserted[m][3], Zero)}}

NoDuplicateRecs(doi) ==
    \A i, j \in Slots(doi) : (i # j /\ doi2recs[i] # -1) => doi2recs[i] # doi2recs[j]

SortedDescending(doi) ==
    \A i, j \in Slots(doi) : i < j => ~Gt(doi2scores[j], doi2scores[i])

HoldsTopK(doi) ==
    LET ins == InsertedFor(doi)
        cands == {p[1] : p \in ins}
        kept == SlotRecs(doi)
    IN  \* as many slots filled as there are candidates, up to K
        /\ Cardinality({i \in Slots(doi) : doi2recs[i] # -1})
              = (IF Cardinality(cands) < K THEN Cardinality(cands) ELSE K)
        \* each filled slot holds a pair that was inserted
        /\ \A i \in Slots(doi) : doi2recs[i] # -1 =>
              \E p \in ins : p[1] = doi2recs[i] /\ ToFloat32(p[2]) = doi2scores[i]
        \* no candidate left out beats a slot
        /\ \A p \in ins : p[1] \notin kept =>
              \A i \in Slots(doi) : ~Gt(ToFloat32(p[2]), doi2scores[i])

\* C1: after any sequence of insert_rec calls, every item's slots hold
\* exactly the K highest-score distinct candidates inserted so far (fewer
\* only if fewer were inserted), in descending score order, no candidate in
\* two slots.
C1_TopKInvariant ==
    pc = "topk" =>
        \A doi \in 0..(NumDois - 1) :
            NoDuplicateRecs(doi) /\ SortedDescending(doi) /\ HoldsTopK(doi)

\* C9: insert_rec(doi, rec, score) with rec already in one of doi's slots
\* changes no slot of doi, whatever the score; and no call changes a slot of
\* another item.
C9_ReinsertIsNoOp ==
    [][(pc = "topk" /\ Len(inserted') = Len(inserted) + 1) =>
         LET call == inserted'[Len(inserted')]
         IN  /\ call[2] \in SlotRecs(call[1]) =>
                  \A i \in Slots(call[1]) :
                      doi2scores'[i] = doi2scores[i] /\ doi2recs'[i] = doi2recs[i]
             /\ \A i \in DOMAIN doi2recs : i \notin Slots(call[1]) =>
                  doi2scores'[i] = doi2scores[i] /\ doi2recs'[i] = doi2recs[i]]_vars

(***************************************************************************)
(* numbered and unnumber.  A row is a tuple; column c of the code is        *)
(* component c + 1.  labels.next() on an exhausted iterator raises          *)
(* StopIteration: inside the generator numbered that ends the generator,   *)
(* in the plain function unnumber it leaves the call as an exception.      *)
(***************************************************************************)
RECURSIVE numbered_walk(_, _, _, _, _)
numbered_walk(rs, ls, k, li, acc) ==
    IF k > Len(rs) THEN acc
    ELSE IF ls[li] # rs[k][1]
         THEN IF li + 1 > Len(ls) THEN acc      \* StopIteration ends the generator
              ELSE numbered_walk(rs, ls, k, li + 1, acc)
         ELSE numbered_walk(rs, ls, k + 1, li, Append(acc, [rs[k] EXCEPT ![1] = li - 1]))

\* a plausible slip: the row's position instead of the label's
RECURSIVE numbered_walk_rowpos(_, _, _, _, _)
numbered_walk_rowpos(rs, ls, k, li, acc) ==
    IF k > Len(rs) THEN acc
    ELSE IF ls[li] # rs[k][1]
         THEN IF li + 1 > Len(ls) THEN acc
              ELSE numbered_walk_rowpos(rs, ls, k, li + 1, acc)
         ELSE numbered_walk_rowpos(rs, ls, k + 1, li, Append(acc, [rs[k] EXCEPT ![1] = k - 1]))

numbered_rowpos(rs, ls) ==
    IF ls = <<>> THEN <<>> ELSE numbered_walk_rowpos(rs, ls, 1, 1, <<>>)

\* the rows the generator yields
numbered(rs, ls) ==
    IF ls = <<>> THEN <<>> ELSE numbered_walk(rs, ls, 1, 1, <<>>)

RECURSIVE unnumber_walk(_, _, _, _, _)
unnumber_walk(rs, ls, column, k, li) ==
    IF k > Len(rs) THEN <<"none", rs>>
    ELSE IF li - 1 # rs[k][column + 1]
         THEN IF li + 1 > Len(ls) THEN <<"StopIteration", rs>>
              ELSE unnumber_walk(rs, ls, column, k, li + 1)
         ELSE unnumber_walk([rs EXCEPT ![k][column + 1] = ls[li]], ls, column, k + 1, li)

\* a plausible slip: the index is not compared, each row takes the next label
RECURSIVE unnumber_walk_zip(_, _, _, _, _)
unnumber_walk_zip(rs, ls, column, k, li) ==
    IF k > Len(rs) THEN <<"none", rs>>
    ELSE IF li > Len(ls) THEN <<"StopIteration", rs>>
    ELSE unnumber_walk_zip([rs EXCEPT ![k][column + 1] = ls[li]], ls, column, k + 1, li + 1)

unnumber_zip(rs, ls, column) ==
    IF ls = <<>> THEN <<"StopIteration", rs>> ELSE unnumber_walk_zip(rs, ls, column, 1, 1)

\* <<exception or "none", the rows as the call leaves them>>
unnumber(rs, ls, column) ==
    IF ls = <<>> THEN <<"StopIteration", rs>> ELSE unnumber_walk(rs, ls, column, 1, 1)

(***************************************************************************)
(* SpecCompact: numbered, then unnumber on what it emitted, and unnumber   *)
(* on rows of ids, for rows in any order and any sorted, duplicate-free    *)
(* labels.  The first column holds a key (numbered) or an id (unnumber).   *)
(***************************************************************************)
CompactKeys == {0, 1, 2}
Tags == {0, 1}

InitCompact ==
    /\ pc = "c_init"
    /\ rows \in SeqsUpTo(CompactKeys \X Tags, MaxRows)
    /\ labels \in {SortedInts(S) : S \in SUBSET CompactKeys}
    /\ out_rows = <<>>
    /\ raised = "none"
    /\ inserted = <<>>
    /\ PipeIdle /\ TableIdle /\ JaccardIdle /\ StashIdle

DoNumbered ==
    /\ pc = "c_init"
    /\ out_rows' = numbered(rows, labels)
    /\ pc' = "c_numbered"
    /\ UNCHANGED <<rows, labels, raised, inserted, pipeVars, tableVars, jaccardVars, stashVars>>

DoUnnumber ==
    /\ pc = "c_numbered"
    /\ LET r == unnumber(out_rows, labels, 0)
       IN  raised' = r[1] /\ out_rows' = r[2]
    /\ pc' = "c_restored"
    /\ UNCHANGED <<rows, labels, inserted, pipeVars, tableVars, jaccardVars, stashVars>>

DoUnnumberIds ==
    /\ pc = "c_init"
    /\ LET r == unnumber(rows, labels, 0)
       IN  raised' = r[1] /\ out_rows' = r[2]
    /\ pc' = "c_ids"
    /\ UNCHANGED <<rows, labels, inserted, pipeVars, tableVars, jaccardVars, stashVars>>

NextCompact == DoNumbered \/ DoUnnumber \/ DoUnnumberIds

SpecCompact == InitCompact /\ [][NextCompact]_vars

FirstColumn(rs) == {rs[k][1] : k \in 1..Len(rs)}

NonDecreasing(rs) == \A k \in 2..Len(rs) : rs[k - 1][1] <= rs[k][1]

\* the sorted rank of key among the labels
RankIn(ls, key) == Cardinality({l \in Range(ls) : l < key})

\* rows sorted by their first column, labels exactly their keys
CompactionPre == NonDecreasing(rows) /\ labels = SortedInts(FirstColumn(rows))

\* C5: for sorted rows and labels the sorted, duplicate-free list of their
\* keys, numbered emits one row per input row, its first column the rank of
\* the key in labels; the ids emitted are exactly 0 .. (distinct keys - 1).
C5_DenseRanks ==
    (pc = "c_numbered" /\ CompactionPre) =>
        /\ Len(out_rows) = Len(rows)
        /\ \A k \in 1..Len(rows) :
              out_rows[k] = <<RankIn(labels, rows[k][1]), rows[k][2]>>
        /\ FirstColumn(out_rows) = 0..(Cardinality(FirstColumn(rows)) - 1)
        /\ \A k, m \in 1..Len(rows) :
              (rows[k][1] # rows[m][1]) => (out_rows[k][1] # out_rows[m][1])

C5_Witness ==
    /\ pc = "c_numbered" /\ CompactionPre
    /\ Len(rows) = 3 /\ Cardinality(FirstColumn(rows)) = 2
    /\ \E k \in 1..Len(rows) : out_rows[k][1] # rows[k][1]

\* C6: for every sorted key sequence, the empty one included, and its
\* label list, unnumber after numbered gives back the key sequence, raises
\* nothing and drops no row.
C6_RoundTrip ==
    (pc = "c_restored" /\ CompactionPre) => (raised = "none" /\ out_rows = rows)

\* rows are in the order of labels and hold only keys (ids) of labels
KeysConsistent ==
    NonDecreasing(rows) /\ FirstColumn(rows) \subseteq Range(labels)
IdsConsistent ==
    NonDecreasing(rows) /\ FirstColumn(rows) \subseteq 0..(Len(labels) - 1)

\* C10 as claimed: on rows out of order with labels, or holding a key (id)
\* that labels lacks, numbered and unnumber raise nothing and give every
\* input row some id (label).
C10_SilentMisassignment ==
    /\ (pc = "c_numbered" /\ ~KeysConsistent) =>
           (raised = "none" /\ Len(out_rows) = Len(rows))
    /\ (pc = "c_ids" /\ ~IdsConsistent) =>
           (raised = "none" /\ \A k \in 1..Len(rows) : out_rows[k][1] \in Range(labels))

\* the longest prefix of rs that walks forward through the values in ok
GoodPrefix(rs, ok) ==
    CHOOSE n \in 0..Len(rs) :
        /\ \A k \in 1..n : rs[k][1] \in ok /\ (k > 1 => rs[k - 1][1] <= rs[k][1])
        /\ n < Len(rs) =>
              ~(rs[n + 1][1] \in ok /\ (n > 0 => rs[n][1] <= rs[n + 1][1]))

\* C10 amended: numbered raises nothing but emits only the rows before the
\* first row out of order or absent from labels, each with its true rank,
\* and drops the rest; unnumber raises StopIteration there (and whenever
\* labels is empty), having relabelled only the rows before it.
C10_TruncatesOrRaises ==
    /\ pc = "c_numbered" =>
          /\ raised = "none"
          /\ out_rows = [k \in 1..GoodPrefix(rows, Range(labels)) |->
                            <<RankIn(labels, rows[k][1]), rows[k][2]>>]
          /\ (Len(out_rows) < Len(rows)) <=> ~KeysConsistent
    /\ pc = "c_ids" =>
          /\ (raised = "StopIteration") <=> (labels = <<>> \/ ~IdsConsistent)
          /\ raised \in {"none", "StopIteration"}
          /\ out_rows = [k \in 1..Len(rows) |->
                            IF k <= GoodPrefix(rows, 0..(Len(labels) - 1))
                            THEN <<labels[rows[k][1] + 1], rows[k][2]>>
                            ELSE rows[k]]

C10_Witness ==
    /\ pc = "c_numbered" /\ ~KeysConsistent
    /\ Len(rows) = 3 /\ Len(out_rows) = 1
    /\ rows[2][1] \in Range(labels) /\ rows[3][1] \in Range(labels)

(***************************************************************************)
(* jaccard_similarity: the linear merge of two sorted id sequences.        *)
(***************************************************************************)
\* the while loop and the statement after it: <<intersection, difference>>
RECURSIVE jaccard_merge(_, _, _, _, _, _)
jaccard_merge(u1, u2, i, j, intersection, difference) ==
    IF i < Len(u1) /\ j < Len(u2)
    THEN IF u1[i + 1] < u2[j + 1]
         THEN jaccard_merge(u1, u2, i + 1, j, intersection, difference + 1)
         ELSE IF u1[i + 1] > u2[j + 1]
              THEN jaccard_merge(u1, u2, i, j + 1, intersection, difference + 1)
              ELSE jaccard_merge(u1, u2, i + 1, j + 1, intersection + 1, difference)
    ELSE <<intersection, difference + (Len(u1) - i) + (Len(u2) - j)>>

\* a plausible slip: the rows left over after the loop are not counted
RECURSIVE jaccard_merge_no_tail(_, _, _, _, _, _)
jaccard_merge_no_tail(u1, u2, i, j, intersection, difference) ==
    IF i < Len(u1) /\ j < Len(u2)
    THEN IF u1[i + 1] < u2[j + 1]
         THEN jaccard_merge_no_tail(u1, u2, i + 1, j, intersection, difference + 1)
         ELSE IF u1[i + 1] > u2[j + 1]
              THEN jaccard_merge_no_tail(u1, u2, i, j + 1, intersection, difference + 1)
              ELSE jaccard_merge_no_tail(u1, u2, i + 1, j + 1, intersection + 1, difference)
    ELSE <<intersection, difference>>

jaccard_counts_no_tail(u1, u2) == jaccard_merge_no_tail(u1, u2, 0, 0, 0, 0)

jaccard_counts(u1, u2) == jaccard_merge(u1, u2, 0, 0, 0, 0)

\* float(intersection) / (float(intersection) + float(difference)); the
\* division by zero of two empty sequences is the caller's to exclude
jaccard_similarity(u1, u2) ==
    LET c == jaccard_counts(u1, u2) IN Frac(c[1], c[1] + c[2])

(***************************************************************************)
(* SpecJaccard: jaccard_similarity on any two sorted, duplicate-free       *)
(* sequences of ids 0 .. MaxUserId.                                        *)
(***************************************************************************)
SortedIdSeqs == {SortedInts(S) : S \in SUBSET (0..MaxUserId)}

InitJaccard ==
    /\ pc = "j_init"
    /\ users1 \in SortedIdSeqs
    /\ users2 \in SortedIdSeqs
    /\ jresult = <<>>
    /\ inserted = <<>>
    /\ PipeIdle /\ TableIdle /\ CompactIdle /\ StashIdle

Jaccard ==
    /\ pc = "j_init"
    /\ ~(users1 = <<>> /\ users2 = <<>>)
    /\ LET c == jaccard_counts(users1, users2)
       IN  jresult' = <<c[1], c[2], jaccard_similarity(users1, users2)>>
    /\ pc' = "j_done"
    /\ UNCHANGED <<users1, users2, inserted, pipeVars, tableVars, compactVars, stashVars>>

JaccardOfNothing ==
    /\ pc = "j_init"
    /\ users1 = <<>> /\ users2 = <<>>
    /\ pc' = "j_ZeroDivisionError"
    /\ UNCHANGED <<jaccardVars, inserted, pipeVars, tableVars, compactVars, stashVars>>

NextJaccard == Jaccard \/ JaccardOfNothing

SpecJaccard == InitJaccard /\ [][NextJaccard]_vars

\* C7: for sorted duplicate-free sequences A, B not both empty the merge
\* counts |A \cap B| and |A symmetric difference B| and returns
\* |A \cap B| / |A \cup B|; the result is symmetric, 1 for A = B and 0 for
\* disjoint A, B.
C7_Jaccard ==
    pc = "j_done" =>
        LET A == Range(users1)
            B == Range(users2)
        IN  /\ jresult[1] = Cardinality(A \cap B)
            /\ jresult[2] = Cardinality((A \ B) \cup (B \ A))
            /\ jresult[3] = Frac(Cardinality(A \cap B), Cardinality(A \cup B))
            /\ jresult[3] = jaccard_similarity(users2, users1)
            /\ (A = B) => jresult[3] = <<1, 1>>
            /\ (A \cap B = {}) => jresult[3] = <<0, 1>>

C7_Witness ==
    /\ pc = "j_done"
    /\ jresult = <<2, 2, <<1, 2>>>>
    /\ Len(users1) = 3 /\ Len(users2) = 3

(***************************************************************************)
(* The stash: one file object per stash.  __iter__ seeks it to the start   *)
(* and returns imap(ujson.loads, self.file); every such iterator reads     *)
(* through the same file object, so they share its position.               *)
(***************************************************************************)
InitStash ==
    /\ pc = "stash"
    /\ file_rows \in SeqsUpTo({1, 2}, MaxStashRows)
    /\ file_pos = 0
    /\ iters = <<>>
    /\ inserted = <<>>
    /\ PipeIdle /\ TableIdle /\ CompactIdle /\ JaccardIdle

\* stash.__iter__
Iterate ==
    /\ pc = "stash"
    /\ Len(iters) < MaxIters
    /\ file_pos' = 0
    /\ iters' = Append(iters, [yielded |-> <<>>, exhausted |-> FALSE])
    /\ UNCHANGED <<pc, file_rows, inserted, pipeVars, tableVars, compactVars, jaccardVars>>

\* next() on the k-th iterator by a consumer that stops at StopIteration
IterNext(k) ==
    /\ pc = "stash"
    /\ ~iters[k].exhausted
    /\ IF file_pos < Len(file_rows)
       THEN /\ iters' = [iters EXCEPT ![k].yielded = Append(@, file_rows[file_pos + 1])]
            /\ file_pos' = file_pos + 1
       ELSE /\ iters' = [iters EXCEPT ![k].exhausted = TRUE]
            /\ file_pos' = file_pos
    /\ UNCHANGED <<pc, file_rows, inserted, pipeVars, tableVars, compactVars, jaccardVars>>

NextStash == Iterate \/ \E k \in 1..Len(iters) : IterNext(k)

SpecStash == InitStash /\ [][NextStash]_vars

\* C8: every iteration started on a stash, once consumed to exhaustion, has
\* yielded exactly the stash's rows in stored order, whatever other
\* iterations of the stash were started, finished, abandoned or are still
\* being consumed.
C8_RestartableIteration ==
    pc = "stash" =>
        \A k \in 1..Len(iters) : iters[k].exhausted => iters[k].yielded = file_rows

(***************************************************************************)
(* stash.sorted, grouped and list.sort.                                    *)
(***************************************************************************)
RECURSIVE Digits(_)
Digits(n) == IF n < 10 THEN <<n>> ELSE Append(Digits(n \div 10), n % 10)

\* The order `sort` gives two integers written in a JSON row: digit by
\* digit, and where one is the start of the other the longer one first
\* (a digit sorts before the "," or "]" that ends the shorter one).
IdTextLess(a, b) ==
    LET da == Digits(a)
        db == Digits(b)
        n == IF Len(da) < Len(db) THEN Len(da) ELSE Len(db)
        diff == {k \in 1..n : da[k] # db[k]}
    IN  IF diff = {} THEN Len(da) > Len(db)
        ELSE da[Min(diff)] < db[Min(diff)]

\* rows [user key, doi key]
KeyRowLess(a, b) == a[1] < b[1] \/ (a[1] = b[1] /\ a[2] < b[2])

\* rows [doi key, user id]
KeyIdRowLess(a, b) == a[1] < b[1] \/ (a[1] = b[1] /\ IdTextLess(a[2], b[2]))

\* stash.sorted (sort -u) of rows [user key, doi key]: the distinct rows in order
sorted_key_rows(S) ==
    [i \in 1..Cardinality(S) |->
        CHOOSE x \in S : Cardinality({y \in S : KeyRowLess(y, x)}) = i - 1]

\* stash.sorted (sort -u) of rows [doi key, user id]
sorted_key_id_rows(S) ==
    [i \in 1..Cardinality(S) |->
        CHOOSE x \in S : Cardinality({y \in S : KeyIdRowLess(y, x)}) = i - 1]

\* itertools.groupby on the first column: <<key, rows of the run>>
RECURSIVE grouped_from(_, _, _)
grouped_from(rs, k, acc) ==
    IF k > Len(rs) THEN acc
    ELSE IF acc # <<>> /\ acc[Len(acc)][1] = rs[k][1]
         THEN grouped_from(rs, k + 1,
                  [acc EXCEPT ![Len(acc)][2] = Append(@, rs[k])])
         ELSE grouped_from(rs, k + 1, Append(acc, <<rs[k][1], <<rs[k]>>>>))

grouped(rs) == grouped_from(rs, 1, <<>>)

\* list.sort(key=operator.itemgetter(column)): stable
RECURSIVE sort_by_column(_, _)
sort_by_column(rs, column) ==
    IF rs = <<>> THEN <<>>
    ELSE LET head == sort_by_column(SubSeq(rs, 1, Len(rs) - 1), column)
             x == rs[Len(rs)]
             n == Cardinality({k \in 1..Len(head) : head[k][column + 1] <= x[column + 1]})
         IN  SubSeq(head, 1, n) \o <<x>> \o SubSeq(head, n + 1, Len(head))

(***************************************************************************)
(* preprocess.                                                             *)
(***************************************************************************)
\* <<raw_users, raw_dois, edges>>
swap_columns(rs) == [k \in 1..Len(rs) |-> <<rs[k][2], rs[k][1]>>]

preprocess(raw) ==
    LET users == SortedInts({e[1] : e \in Range(raw)})
        dois == SortedInts({e[2] : e \in Range(raw)})
        by_user == numbered(sorted_key_rows(Range(raw)), users)
        by_doi == numbered(sorted_key_id_rows(Range(swap_columns(by_user))), dois)
    IN  <<users, dois, by_doi>>

(***************************************************************************)
(* recommendations and minhash_round.                                      *)
(***************************************************************************)
buckets_of(gs) ==
    [g \in 1..Len(gs) |->
        <<0, 0, gs[g][1], SortedInts({gs[g][2][k][2] : k \in 1..Len(gs[g][2])})>>]

initial_buckets(es) == buckets_of(grouped(es))

BucketLess(a, b) ==
    \/ a[1] < b[1]
    \/ a[1] = b[1] /\ a[2] < b[2]
    \/ a[1] = b[1] /\ a[2] = b[2] /\ a[3] < b[3]

\* the first loop and the sort: h[user] is hash((seed, user, seed)), r[k] the
\* random.random() drawn for the k-th bucket
\* buckets.sort(): the buckets differ in their third column at least
sorted_buckets(S) ==
    [i \in 1..Cardinality(S) |->
        CHOOSE x \in S : Cardinality({y \in S : BucketLess(y, x)}) = i - 1]

hashed_buckets(bs, h, r) ==
    sorted_buckets({<<Min({h[bs[k][4][n]] : n \in 1..Len(bs[k][4])}), r[k], bs[k][3], bs[k][4]>> :
                       k \in 1..Len(bs)})

\* a plausible slip: the pair is recorded for its first item only
insert_one_way(t, doi1, doi2, score) == insert_rec(t, doi1, doi2, score)

\* the body of the loop of recommendations
insert_both(t, doi1, doi2, score) ==
    insert_rec(insert_rec(t, doi1, doi2, score), doi2, doi1, score)

\* the loop of recommendations over what minhash_round yields from pair k on
RECURSIVE feed_pairs(_, _, _)
feed_pairs(t, bs, k) ==
    IF k >= Len(bs) THEN t
    ELSE feed_pairs(insert_both(t, bs[k][3], bs[k + 1][3],
                                jaccard_similarity(bs[k][4], bs[k + 1][4])),
                    bs, k + 1)

\* the rows [doi, rec, score] of the slots in use
RECURSIVE drain_from(_, _, _)
drain_from(t, i, acc) ==
    IF i \notin DOMAIN t[1] THEN acc
    ELSE IF Gt(t[1][i], Zero) /\ t[2][i] >= 0
         THEN drain_from(t, i + 1, Append(acc, <<i \div K, t[2][i], t[1][i]>>))
         ELSE drain_from(t, i + 1, acc)

drain(t) == drain_from(t, 0, <<>>)

(***************************************************************************)
(* ujson.dumps and ujson.loads of a float.  The library is not part of the *)
(* repository; the encoder and decoder are those of the ujson 1.x releases *)
(* (the ones that run on Python 2): dumps writes a double with a fixed     *)
(* number of decimals, double_precision, and loads reads the fraction as   *)
(* an integer divided by a power of ten.  (Python's own json module writes *)
(* the shortest text that reads back as the same double; ujson 1.x does    *)
(* not, and the text it writes is in general another number.)              *)
(*                                                                         *)
(* A double has 53 significant bits, more than the model's integers hold:  *)
(* a natural number is a sequence of base-128 limbs, most significant      *)
(* first, and a double is <<x, nf>>, the number x / 128^nf.                *)
(***************************************************************************)
\* dumps is called without double_precision (l.28, l.194): the default of the
\* release in use applies, one of these in the 1.x releases and their manual
DoublePrecisions == {5, 9, 10}

\* x * c + a
RECURSIVE mul_small(_, _, _)
mul_small(x, c, a) ==
    IF x = <<>>
    THEN IF a = 0 THEN <<>> ELSE Append(mul_small(<<>>, c, a \div 128), a % 128)
    ELSE Append(mul_small(SubSeq(x, 1, Len(x) - 1), c, (x[Len(x)] * c + a) \div 128),
                (x[Len(x)] * c + a) % 128)

\* <<x \div c, x % c>>, the quotient as long as x; acc is the pair so far
RECURSIVE div_from(_, _, _, _)
div_from(x, c, k, acc) ==
    IF k > Len(x) THEN acc
    ELSE div_from(x, c, k + 1, <<Append(acc[1], (acc[2] * 128 + x[k]) \div c),
                                 (acc[2] * 128 + x[k]) % c>>)

div_small(x, c) == div_from(x, c, 1, <<<<>>, 0>>)

RECURSIVE strip(_)
strip(x) == IF x # <<>> /\ x[1] = 0 THEN strip(Tail(x)) ELSE x

zeros(n) == IF n <= 0 THEN <<>> ELSE [i \in 1..n |-> 0]

pad(x, n) == zeros(n - Len(x)) \o x

NonZero(x) == \E i \in 1..Len(x) : x[i] # 0

RECURSIVE NatOf(_)
NatOf(x) == IF x = <<>> THEN 0 ELSE NatOf(SubSeq(x, 1, Len(x) - 1)) * 128 + x[Len(x)]

RECURSIVE BitLen(_)
BitLen(n) == IF n = 0 THEN 0 ELSE 1 + BitLen(n \div 2)

stripped_bit_length(s) == IF s = <<>> THEN 0 ELSE 7 * (Len(s) - 1) + BitLen(s[1])

bit_length(x) == stripped_bit_length(strip(x))

\* <<x \div 2^t, whether a bit dropped was set>>
dropped_bits(kept, lost, t) ==
    <<div_small(kept, 2 ^ (t % 7))[1],
      NonZero(lost) \/ div_small(kept, 2 ^ (t % 7))[2] # 0>>

drop_bits(x, t) ==
    IF t \div 7 >= Len(x) THEN <<<<>>, NonZero(x)>>
    ELSE dropped_bits(SubSeq(x, 1, Len(x) - t \div 7),
                      SubSeq(x, Len(x) - t \div 7 + 1, Len(x)), t)

\* round to nearest, ties to even, at bit s: h = <<x \div 2^s, the bit below>>
round_up(h, s, sticky) ==
    mul_small(mul_small(h[1], 1,
                        IF h[2] = 1 /\ (sticky \/ h[1][Len(h[1])] % 2 = 1) THEN 1 ELSE 0),
              2 ^ (s % 7), 0) \o zeros(s \div 7)

round_at(y, s, sticky) == round_up(div_small(y[1], 2), s, y[2] \/ sticky)

\* x rounded to 53 significant bits, as the result of a double operation is;
\* sticky: the exact value is a little above x
round53(x, sticky) ==
    IF bit_length(x) <= 53 THEN x
    ELSE round_at(drop_bits(x, bit_length(x) - 54), bit_length(x) - 53, sticky)

Log2(d) == BitLen(d) - 1

\* the double of a float q = n / 2^e
double_of(q) ==
    IF q[1] = 0 THEN <<<<>>, 0>>
    ELSE <<mul_small(<<>>, 1, q[1] * 2 ^ (7 * ((Log2(q[2]) + 6) \div 7) - Log2(q[2]))),
           (Log2(q[2]) + 6) \div 7>>

RECURSIVE decimal_digits(_)
decimal_from(d) == Append(decimal_digits(d[1]), d[2])

decimal_digits(x) == IF strip(x) = <<>> THEN <<>> ELSE decimal_from(div_small(strip(x), 10))

RECURSIVE strip_trailing(_)
strip_trailing(ds) ==
    IF ds # <<>> /\ ds[Len(ds)] = 0 THEN strip_trailing(SubSeq(ds, 1, Len(ds) - 1)) ELSE ds

\* the text of a float: <<whole part, digits after the point>>
float_text(whole, fd, precision) ==
    IF fd = <<>> THEN <<whole, <<0>>>>
    ELSE <<whole, zeros(precision - Len(fd)) \o strip_trailing(fd)>>

\* diff > 0.5: one more, and a fraction that reaches 10^precision rolls over
rounded_up_text(whole, fd, precision) ==
    IF Len(fd) > precision THEN float_text(whole + 1, <<>>, precision)
    ELSE float_text(whole, fd, precision)

\* frac = (unsigned long long) tmp, diff = tmp - frac
dumps_rounded(whole, frac, diff, precision) ==
    IF diff # <<>> /\ (diff[1] > 64 \/ (diff[1] = 64 /\ NonZero(Tail(diff))))
    THEN rounded_up_text(whole, decimal_digits(mul_small(frac, 1, 1)), precision)
    ELSE IF /\ diff # <<>> /\ diff[1] = 64 /\ ~NonZero(Tail(diff))
            /\ (strip(frac) = <<>> \/ frac[Len(frac)] % 2 = 1)
         THEN float_text(whole, decimal_digits(mul_small(frac, 1, 1)), precision)
         ELSE float_text(whole, decimal_digits(frac), precision)

\* tmp = (value - whole) * pow10, a double
dumps_tmp(whole, tmp, nf, precision) ==
    dumps_rounded(whole, SubSeq(tmp, 1, Len(tmp) - nf),
                  SubSeq(tmp, Len(tmp) - nf + 1, Len(tmp)), precision)

dumps_split(x, nf, precision) ==
    dumps_tmp(NatOf(SubSeq(x, 1, Len(x) - nf)),
              pad(round53(mul_small(mul_small(SubSeq(x, Len(x) - nf + 1, Len(x)),
                                              10 ^ (precision \div 2), 0),
                                    10 ^ (precision - precision \div 2), 0), FALSE), nf),
              nf, precision)

\* ujson.dumps of the double v
dumps_double(v, precision) == dumps_split(pad(strip(v[1]), v[2] + 1), v[2], precision)

RECURSIVE digits_value(_)
digits_value(ds) ==
    IF ds = <<>> THEN <<>>
    ELSE mul_small(digits_value(SubSeq(ds, 1, Len(ds) - 1)), 10, ds[Len(ds)])

\* intValue + frcValue / 10^decimalCount, each operation rounded
loads_sum(whole, x, nf) ==
    <<round53(mul_small(SubSeq(x, 1, Len(x) - nf), 1, whole)
                  \o SubSeq(x, Len(x) - nf + 1, Len(x)), FALSE), nf>>

loads_quotient(whole, q1, k, nf) ==
    loads_sum(whole,
              pad(round53(div_small(q1[1], 10 ^ (k - k \div 2))[1],
                          q1[2] # 0 \/ div_small(q1[1], 10 ^ (k - k \div 2))[2] # 0), nf),
              nf)

\* ujson.loads of the text t
loads_double(t) ==
    loads_quotient(t[1],
                   div_small(digits_value(t[2]) \o zeros(Len(t[2]) \div 2 + 9),
                             10 ^ (Len(t[2]) \div 2)),
                   Len(t[2]), Len(t[2]) \div 2 + 9)

(***************************************************************************)
(* postprocess: <<exception or "none", the lines of the stash returned>>,  *)
(* a line being a row (doi, [(rec, score)]) with its scores as text.       *)
(***************************************************************************)
\* ujson.dumps of a row (doi, [(rec, score)])
dumps_row(row, precision) ==
    <<row[1], [k \in 1..Len(row[2]) |->
                  <<row[2][k][1], dumps_double(row[2][k][2], precision)>>]>>

\* ujson.loads of a line
loads_row(line) ==
    <<line[1], [k \in 1..Len(line[2]) |-> <<line[2][k][1], loads_double(line[2][k][2])>>]>>

\* stash.__init__: the lines written for the rows
stash_lines(rs, precision) == [g \in 1..Len(rs) |-> dumps_row(rs[g], precision)]

\* stash.__iter__, consumed to its end: the rows read back
stash_rows(lines) == [g \in 1..Len(lines) |-> loads_row(lines[g])]

\* the generator handed to stash: (doi, [(score, rec) for (_, score, rec) in group]),
\* the scores being the doubles the array('f') items convert to
raw_recs(gs) ==
    [g \in 1..Len(gs) |->
        <<gs[g][1], [k \in 1..Len(gs[g][2]) |->
                        <<gs[g][2][k][2], double_of(gs[g][2][k][3])>>]>>]

postprocess_by_doi(dois, by_rec) ==
    IF by_rec[1] # "none" THEN <<by_rec[1], <<>>>>
    ELSE unnumber(sort_by_column(by_rec[2], 0), dois, 0)

postprocess_grouped(by_doi, precision) ==
    IF by_doi[1] # "none" THEN <<by_doi[1], <<>>>>
    ELSE <<"none", stash_lines(raw_recs(grouped(by_doi[2])), precision)>>

postprocess(dois, rs, precision) ==
    postprocess_grouped(postprocess_by_doi(dois, unnumber(sort_by_column(rs, 1), dois, 1)),
                        precision)

\* main: sys.stdout.writelines of ujson.dumps(row) for the rows of the stash
writelines(raw_recs_stash, precision) == stash_lines(stash_rows(raw_recs_stash), precision)

(***************************************************************************)
(* Spec: main on any input of up to MaxEdges rows [user, doi].  The input  *)
(* rows are taken in non-increasing order: every use of them goes through  *)
(* sort -u, so that their order is immaterial and repeated rows are kept.  *)
(***************************************************************************)
Inputs ==
    {s \in SeqsUpTo(UserKeys \X DoiKeys, MaxEdges) :
        \A k \in 2..Len(s) : ~KeyRowLess(s[k - 1], s[k])}

Perms(n) == {f \in [1..n -> 1..n] : \A i, j \in 1..n : f[i] = f[j] => i = j}

Init ==
    /\ pc = "main"
    /\ minhash_rounds \in MinhashRounds
    /\ raw_edges \in Inputs
    /\ raw_users = <<>> /\ raw_dois = <<>> /\ edges = <<>>
    /\ buckets = <<>> /\ round = 0 /\ recs = <<>> /\ output = <<>>
    /\ inserted = <<>>
    /\ TableIdle /\ CompactIdle /\ JaccardIdle /\ StashIdle

Preprocess ==
    /\ pc = "main"
    /\ \E p \in {preprocess(raw_edges)} :
           raw_users' = p[1] /\ raw_dois' = p[2] /\ edges' = p[3]
    /\ pc' = "preprocessed"
    /\ UNCHANGED <<minhash_rounds, raw_edges, buckets, round, recs, output, inserted,
                   tableVars, compactVars, jaccardVars, stashVars>>

StartRecommendations ==
    /\ pc = "preprocessed"
    /\ buckets' = initial_buckets(edges)
    /\ doi2scores' = EmptyScores(Len(raw_dois))
    /\ doi2recs' = EmptyRecs(Len(raw_dois))
    /\ round' = 0
    /\ pc' = "rounds"
    /\ UNCHANGED <<minhash_rounds, raw_edges, raw_users, raw_dois, edges, recs, output, inserted,
                   compactVars, jaccardVars, stashVars>>

MinhashRound ==
    /\ pc = "rounds"
    /\ round < minhash_rounds
    /\ \E hp \in Perms(Len(raw_users)), r \in Perms(Len(buckets)) :
          \E bs \in {hashed_buckets(buckets, [u \in 0..(Len(raw_users) - 1) |-> hp[u + 1]], r)} :
          \E t \in {feed_pairs(<<doi2scores, doi2recs>>, bs, 1)} :
              buckets' = bs /\ doi2scores' = t[1] /\ doi2recs' = t[2]
    /\ round' = round + 1
    /\ UNCHANGED <<pc, minhash_rounds, raw_edges, raw_users, raw_dois, edges, recs, output, inserted,
                   compactVars, jaccardVars, stashVars>>

Drain ==
    /\ pc = "rounds"
    /\ round = minhash_rounds
    /\ recs' = drain(<<doi2scores, doi2recs>>)
    /\ buckets' = <<>>
    /\ pc' = "drained"
    /\ UNCHANGED <<minhash_rounds, raw_edges, raw_users, raw_dois, edges, round, output, inserted,
                   tableVars, compactVars, jaccardVars, stashVars>>

\* postprocess and the writing of its rows, with the double_precision of the
\* ujson in use
Postprocess ==
    /\ pc = "drained"
    /\ \E precision \in DoublePrecisions :
       \E p \in {postprocess(raw_dois, recs, precision)} :
           /\ output' = writelines(p[2], precision)
           /\ pc' = IF p[1] = "none" THEN "done" ELSE p[1]
    /\ UNCHANGED <<minhash_rounds, raw_edges, raw_users, raw_dois, edges, buckets, round, recs, inserted,
                   tableVars, compactVars, jaccardVars, stashVars>>

Next == Preprocess \/ StartRecommendations \/ MinhashRound \/ Drain \/ Postprocess

Spec == Init /\ [][Next]_vars

\* What the claims say of a run of main.
UsersOf(doi) == {e[1] : e \in {x \in Range(raw_edges) : x[2] = doi}}
DoisOf(user) == {e[2] : e \in {x \in Range(raw_edges) : x[1] = user}}

\* |A \cap B| / |A \cup B| of the two items' users in the input
ExactJaccard(doi1, doi2) ==
    Frac(Cardinality(UsersOf(doi1) \cap UsersOf(doi2)),
         Cardinality(UsersOf(doi1) \cup UsersOf(doi2)))

\* every entry (doi, rec, score) of the output
OutputEntries ==
    UNION {{<<output[g][1], output[g][2][k][1], output[g][2][k][2]>> :
                k \in 1..Len(output[g][2])} : g \in 1..Len(output)}

\* edges [(u1,a),(u1,b),(u2,a),(u2,b),(u3,a)]
ExampleInput ==
    Range(raw_edges) = {<<1, 1>>, <<1, 2>>, <<2, 1>>, <<2, 2>>, <<3, 1>>}

\* the number written as a is greater than the one written as b
DigitAt(ds, k) == IF k <= Len(ds) THEN ds[k] ELSE 0

TextGt(a, b) ==
    \/ a[1] > b[1]
    \/ /\ a[1] = b[1]
       /\ \E k \in 1..(Len(a[2]) + Len(b[2])) :
             /\ DigitAt(a[2], k) > DigitAt(b[2], k)
             /\ \A m \in 1..(k - 1) : DigitAt(a[2], m) = DigitAt(b[2], m)

\* the first k decimals of the rational q: <<digits, remainder>>
RECURSIVE DecimalsFrom(_, _, _, _)
DecimalsFrom(r, d, k, ds) ==
    IF k = 0 THEN <<ds, r>>
    ELSE DecimalsFrom((r * 10) % d, d, k - 1, Append(ds, (r * 10) \div d))

Decimals(q, k) == DecimalsFrom(q[1] % q[2], q[2], k, <<>>)

\* the digits ds plus one in the last place: <<carry out, digits>>
RECURSIVE PlusOne(_)
PlusOne(ds) ==
    IF ds = <<>> THEN <<1, <<>>>>
    ELSE IF ds[Len(ds)] < 9 THEN <<0, [ds EXCEPT ![Len(ds)] = @ + 1]>>
    ELSE <<PlusOne(SubSeq(ds, 1, Len(ds) - 1))[1],
           Append(PlusOne(SubSeq(ds, 1, Len(ds) - 1))[2], 0)>>

RECURSIVE WithoutTrailingZeros(_)
WithoutTrailingZeros(ds) ==
    IF Len(ds) > 1 /\ ds[Len(ds)] = 0
    THEN WithoutTrailingZeros(SubSeq(ds, 1, Len(ds) - 1))
    ELSE ds

RoundedFrom(whole, t, d, up) ==
    IF up THEN <<whole + PlusOne(t[1])[1], WithoutTrailingZeros(PlusOne(t[1])[2])>>
    ELSE <<whole, WithoutTrailingZeros(t[1])>>

\* the rational q written with k decimals, rounded to the nearest (a tie to
\* the even digit), with no zero at the end beyond the first decimal
RoundedDecimal(q, k) ==
    RoundedFrom(q[1] \div q[2], Decimals(q, k), q[2],
                \/ 2 * Decimals(q, k)[2] > q[2]
                \/ (2 * Decimals(q, k)[2] = q[2] /\ Decimals(q, k)[1][k] % 2 = 1))

\* C2: the output records are ordered by item key and every inner list is
\* in descending order of score.
C2_OutputOrder ==
    pc = "done" =>
        /\ \A g \in 2..Len(output) : output[g - 1][1] < output[g][1]
        /\ \A g \in 1..Len(output) : \A k \in 2..Len(output[g][2]) :
              ~TextGt(output[g][2][k][2], output[g][2][k - 1][2])

\* C3 as claimed: every entry emitted has a candidate other than the item
\* and the exact Jaccard similarity of the two items' users as its score;
\* the example gives exactly a -> [(b, 2/3)], b -> [(a, 2/3)].  A score is
\* emitted as text, so that "exact" is read as: the exact quotient, rounded
\* by nothing but its writing with the decimals of double_precision.
C3_ExactScores ==
    pc = "done" =>
        \E precision \in DoublePrecisions :
            /\ \A e \in OutputEntries :
                  /\ e[2] # e[1]
                  /\ e[3] = RoundedDecimal(ExactJaccard(e[1], e[2]), precision)
            /\ ExampleInput =>
                  output = << <<1, << <<2, RoundedDecimal(Frac(2, 3), precision)>> >> >>,
                              <<2, << <<1, RoundedDecimal(Frac(2, 3), precision)>> >> >> >>

\* C3 amended: the score of every entry emitted is the Jaccard similarity
\* rounded to single precision, as array('f') stores it, and written with
\* the decimals of the encoder's double_precision, the same for all entries;
\* the example gives exactly a -> [(b, s)], b -> [(a, s)] with s the text of
\* float32(2/3) = 0.6666666865348816: 0.66667, 0.666666687 or 0.6666666865.
C3_Float32Scores ==
    pc = "done" =>
        /\ \E precision \in DoublePrecisions : \A e \in OutputEntries :
              /\ e[2] # e[1]
              /\ e[3] = RoundedDecimal(ToFloat32(ExactJaccard(e[1], e[2])), precision)
        /\ ExampleInput =>
              \E s \in {<<0, <<6, 6, 6, 6, 7>>>>,
                        <<0, <<6, 6, 6, 6, 6, 6, 6, 8, 7>>>>,
                        <<0, <<6, 6, 6, 6, 6, 6, 6, 8, 6, 5>>>>} :
                  output = << <<1, << <<2, s>> >> >>, <<2, << <<1, s>> >> >> >>

C3_Witness ==
    /\ pc = "done" /\ ExampleInput
    /\ output = << <<1, << <<2, <<0, <<6, 6, 6, 6, 6, 6, 6, 8, 7>>>> >> >> >>,
                    <<2, << <<1, <<0, <<6, 6, 6, 6, 6, 6, 6, 8, 7>>>> >> >> >> >>

\* the compacted edges as (doi key, user key) pairs
CompactedEdges == {<<raw_dois[e[1] + 1], raw_users[e[2] + 1]>> : e \in Range(edges)}

\* C4: a user with more than max_interactions_per_user distinct items has
\* no edge among the compacted edges; any other user has exactly their
\* distinct edges there.
C4_BotFilter ==
    pc \in {"preprocessed", "rounds", "drained", "done"} =>
        CompactedEdges =
            {<<e[2], e[1]>> :
                e \in {x \in Range(raw_edges) :
                          Cardinality(DoisOf(x[1])) <= max_interactions_per_user}}

====
